---- MODULE Spec2Model ----
(***************************************************************************)
(* NYC WiFi Hotspots dashboard (app.py): the data load, the search filter, *)
(* the borough summary, the routing client and the session state that the  *)
(* script reads and writes on each of its top-to-bottom runs.               *)
(*                                                                         *)
(* Text is a sequence of one-character strings.  A CSV cell is text; the   *)
(* empty text <<>> is an empty cell, which pandas reads as NaN.  Numbers   *)
(* are records [nan, v]: coordinates are counted in units of 0.0001        *)
(* degree, so that the click tolerance of the script is one unit.          *)
(***************************************************************************)
EXTENDS Integers, Sequences, FiniteSets

VARIABLES
    csv,                      \* the rows of the CSV file, as text cells
    df,                       \* the DataFrame after load, clean and sort
    selected_column_display,  \* value of the "Filter by:" dropdown
    search,                   \* value of the search box (session key "search_key")
    filtered_df,              \* positions in df of the rows of filtered_df
    borough_summary,          \* rows (code, name, count) of borough_summary
    pc,                       \* position of the data pipeline (SpecData)
    selected_hotspot,         \* session_state.selected_hotspot ({} when absent)
    show_directions,          \* session_state.show_directions  ({} when absent)
    location_shared,          \* session_state.location_shared  ({} when absent)
    user_location,            \* session_state.user_location    ({} when absent)
    location_requested,       \* session_state.location_requested ({} when absent)
    hotspot_sample,           \* session_state.hotspot_sample   ({} when absent)
    last_object_clicked,      \* value held by the map component ({} when None)
    hotspot_table,            \* session_state["hotspot_table"]: the row picked in the table
    response,                 \* the routing response of the last run ({} when none)
    map_data,                 \* positions in df of the rows put on the map (a set)
    markers,                  \* the hotspot markers of the last run: [row, color]
    polyline,                 \* whether the last run drew a route polyline
    messages,                 \* the messages the last run showed
    run,                      \* how the last script run ended
    event,                    \* the user action, or the click the map reported,
                              \* that the last run and its reruns answer
    prev_selected             \* selected_hotspot when that event happened

vars == <<csv, df, selected_column_display, search, filtered_df, borough_summary,
          pc, selected_hotspot, show_directions, location_shared, user_location,
          location_requested, hotspot_sample,
          last_object_clicked, hotspot_table, response, map_data, markers,
          polyline, messages, run, event, prev_selected>>

dataVars == <<csv, df, selected_column_display, search, filtered_df,
              borough_summary, pc>>

sessionVars == <<selected_hotspot, show_directions, location_shared, user_location,
                 location_requested, hotspot_sample,
                 last_object_clicked, hotspot_table, response, map_data, markers,
                 polyline, messages, run, event, prev_selected>>

(***************************************************************************)
(* Bounds of the model.                                                    *)
(***************************************************************************)
\* Largest number of rows of a CSV table the data pipeline is checked on.
MaxRows == 2

\* Size of the random sample shown on the map (n=200 in the script), scaled
\* to the tables of the model.
SampleN == 2

(***************************************************************************)
(* Columns.                                                                *)
(***************************************************************************)
columns_to_show ==
    <<"Provider", "Name", "Location", "Location_T", "SSID", "Borough Name",
      "Neighborhood Tabulation Area (NTA)", "Postcode", "Location (Lat, Long)">>

column_rename_map ==
    [c \in {columns_to_show[i] : i \in 1..Len(columns_to_show)} |->
        CASE c = "Provider" -> "Provider"
          [] c = "Name" -> "Hotspot Name"
          [] c = "Location" -> "Address/Location"
          [] c = "Location_T" -> "Location Type"
          [] c = "SSID" -> "WiFi Network (SSID)"
          [] c = "Borough Name" -> "Borough"
          [] c = "Neighborhood Tabulation Area (NTA)" -> "Neighborhood"
          [] c = "Postcode" -> "Postcode"
          [] c = "Location (Lat, Long)" -> "Coordinates"]

ShownColumns == DOMAIN column_rename_map

CsvColumns == ShownColumns \cup {"Latitude", "Longitude", "BoroCode"}

search_columns == {"All"} \cup {column_rename_map[c] : c \in ShownColumns}

\* Map display name back to original column name for filtering.
selected_column(display) ==
    IF display = "All" THEN "All"
    ELSE CHOOSE c \in ShownColumns : column_rename_map[c] = display

(***************************************************************************)
(* Text and numbers.                                                       *)
(***************************************************************************)
NaN == [nan |-> TRUE, v |-> 0]

Num(n) == [nan |-> FALSE, v |-> n]

Digits == {"0", "1", "2", "3", "4", "5", "6"}

DigitVal(c) ==
    CASE c = "0" -> 0 [] c = "1" -> 1 [] c = "2" -> 2 [] c = "3" -> 3
      [] c = "4" -> 4 [] c = "5" -> 5 [] c = "6" -> 6

DigitChar(n) ==
    CASE n = 0 -> "0" [] n = 1 -> "1" [] n = 2 -> "2" [] n = 3 -> "3"
      [] n = 4 -> "4" [] n = 5 -> "5" [] n = 6 -> "6"

\* pd.to_numeric(..., errors="coerce") of one cell: the number a numeral
\* denotes, NaN for an empty cell and for text that is no numeral.
to_numeric(cell) ==
    IF Len(cell) = 1 /\ cell[1] \in Digits THEN Num(DigitVal(cell[1])) ELSE NaN

\* Python's == on floats: NaN equals nothing, itself included.
NumEq(a, b) == ~a.nan /\ ~b.nan /\ a.v = b.v

\* str.lower of one character (the alphabet has one cased letter).
Lower(c) == IF c = "A" THEN "a" ELSE c

\* re.search(pat, s, re.IGNORECASE) for a pattern of literal characters and
\* ".": one pattern character against one character of the text.
AtomMatches(p, c) == p = "." \/ Lower(p) = Lower(c)

\* Series.str.contains(pat, case=False): regex defaults to True, so pat is a
\* regular expression searched anywhere in the text.
str_contains(s, pat) ==
    \E i \in 0..(Len(s) - Len(pat)) :
        \A k \in 1..Len(pat) : AtomMatches(pat[k], s[i + k])

\* q occurs in s as a substring, letter case ignored.
IsSubstringCI(q, s) ==
    \E i \in 0..(Len(s) - Len(q)) :
        \A k \in 1..Len(q) : Lower(q[k]) = Lower(s[i + k])

(***************************************************************************)
(* Load the dataset, clean and prepare it.                                 *)
(***************************************************************************)
\* pd.read_csv: Postcode and BoroCode hold numerals or nothing and are read
\* as numbers; the other cells are kept as read.
read_csv(table) ==
    [i \in 1..Len(table) |->
        [c \in CsvColumns |->
            IF c \in {"Postcode", "BoroCode"} THEN to_numeric(table[i][c])
            ELSE table[i][c]]]

\* A numeric column with an empty cell is read as float64, else as int64.
PostcodeIsFloat(table) == \E i \in 1..Len(table) : to_numeric(table[i]["Postcode"]).nan

KeepRow(row) == row["Latitude"] # <<>> /\ row["Longitude"] # <<>>

\* df.dropna(subset=["Latitude", "Longitude"]): rows with an empty cell go.
dropna(frame) == SelectSeq(frame, KeepRow)

\* df["Latitude"] = pd.to_numeric(df["Latitude"], errors="coerce"), and the
\* same for Longitude.
coerce_coordinates(frame) ==
    [i \in 1..Len(frame) |->
        [c \in CsvColumns |->
            IF c \in {"Latitude", "Longitude"} THEN to_numeric(frame[i][c])
            ELSE frame[i][c]]]

\* Order of sort_values("Postcode", ascending=True): NaN goes last.
PostcodeLeq(a, b) == b.nan \/ (~a.nan /\ a.v <= b.v)

IsSortedByPostcode(frame) ==
    \A i \in 1..Len(frame), j \in 1..Len(frame) :
        i < j => PostcodeLeq(frame[i]["Postcode"], frame[j]["Postcode"])

RowOrders(n) == {p \in [1..n -> 1..n] : \A i, j \in 1..n : p[i] = p[j] => i = j}

\* df.sort_values("Postcode"): the default sort is not stable, so rows with
\* equal postcodes may come out in any order.
sort_values(frame) ==
    {d \in {[i \in 1..Len(frame) |-> frame[p[i]]] : p \in RowOrders(Len(frame))} :
        IsSortedByPostcode(d)}

\* Lines 90-136: every DataFrame the load can produce from a table.
Load(table) == sort_values(coerce_coordinates(dropna(read_csv(table))))

(***************************************************************************)
(* The search filter.                                                      *)
(***************************************************************************)
\* astype(str) of one cell of a displayed column: NaN prints as "nan", a
\* float64 postcode with its ".0".
astype_str(row, c, isFloat) ==
    IF c = "Postcode"
    THEN IF row[c].nan THEN <<"n", "a", "n">>
         ELSE IF isFloat THEN <<DigitChar(row[c].v), ".", "0">>
         ELSE <<DigitChar(row[c].v)>>
    ELSE IF row[c] = <<>> THEN <<"n", "a", "n">> ELSE row[c]

IsNa(row, c) == IF c = "Postcode" THEN row[c].nan ELSE row[c] = <<>>

\* Lines 231-236: the options of the search box besides "".
all_suggestions(frame, column, isFloat) ==
    IF column = "All"
    THEN {astype_str(frame[i], c, isFloat) : i \in 1..Len(frame), c \in ShownColumns}
    ELSE {astype_str(frame[i], column, isFloat) :
            i \in {j \in 1..Len(frame) : ~IsNa(frame[j], column)}}

\* Lines 269-276: the boolean mask of one row.
mask(row, column, query, isFloat) ==
    IF column = "All"
    THEN \E c \in ShownColumns : str_contains(astype_str(row, c, isFloat), query)
    ELSE str_contains(astype_str(row, column, isFloat), query)

\* The positions of frame, in order, that are in hits.
Positions(frame, hits) ==
    SelectSeq([i \in 1..Len(frame) |-> i], LAMBDA i : i \in hits)

AtHotspot(row, hotspot) ==
    NumEq(row["Latitude"], hotspot.lat) /\ NumEq(row["Longitude"], hotspot.lon)

\* The filter without the branch of lines 277-283: an empty query gives
\* every row, selection or not.
FilterEngineWithoutSelection(frame, column, query, selection, isFloat) ==
    IF query # <<>>
    THEN Positions(frame, {i \in 1..Len(frame) :
                                mask(frame[i], column, query, isFloat)})
    ELSE [i \in 1..Len(frame) |-> i]

\* Lines 268-285: filtered_df, as the positions in df of its rows.
FilterEngine(frame, column, query, selection, isFloat) ==
    IF query # <<>>
    THEN Positions(frame, {i \in 1..Len(frame) :
                                mask(frame[i], column, query, isFloat)})
    ELSE IF selection # {}
    THEN LET hotspot == CHOOSE h \in selection : TRUE
         IN  Positions(frame, {i \in 1..Len(frame) : AtHotspot(frame[i], hotspot)})
    ELSE [i \in 1..Len(frame) |-> i]

(***************************************************************************)
(* Table showing boroughs and number of hotspots.                          *)
(***************************************************************************)
borough_code_to_name ==
    [c \in 1..5 |->
        CASE c = 1 -> "Manhattan" [] c = 2 -> "Bronx" [] c = 3 -> "Brooklyn"
          [] c = 4 -> "Queens" [] c = 5 -> "Staten Island"]

\* df["BoroCode"].value_counts(): one row per code that occurs; dropna
\* defaults to True, so NaN codes form no group.
value_counts(frame) ==
    LET codes == {frame[i]["BoroCode"].v :
                    i \in {j \in 1..Len(frame) : ~frame[j]["BoroCode"].nan}}
    IN  {[code |-> c,
          count |-> Cardinality({i \in 1..Len(frame) :
                        ~frame[i]["BoroCode"].nan /\ frame[i]["BoroCode"].v = c})] :
         c \in codes}

\* Lines 609-625: (Borough Code, Borough Name, Number of Hotspots); a code
\* outside the table maps to a NaN name.
BoroughSummary(frame) ==
    {[code |-> g.code,
      name |-> IF g.code \in DOMAIN borough_code_to_name
               THEN borough_code_to_name[g.code] ELSE "NaN",
      count |-> g.count] : g \in value_counts(frame)}

RECURSIVE SumCounts(_)
SumCounts(groups) ==
    IF groups = {} THEN 0
    ELSE LET g == CHOOSE x \in groups : TRUE
         IN  g.count + SumCounts(groups \ {g})

(***************************************************************************)
(* The data pipeline on its own: any small CSV table is loaded, searched   *)
(* and summarised (SpecData).                                              *)
(***************************************************************************)
\* A row whose coordinates parse and whose text cells all read "n".
DefaultRow ==
    [c \in CsvColumns |->
        CASE c = "Postcode" -> <<"1">>
          [] c = "Latitude" -> <<"1">>
          [] c = "Longitude" -> <<"2">>
          [] c = "BoroCode" -> <<"1">>
          [] OTHER -> <<"n">>]

\* The cells a column may hold instead: an empty cell, text with the regex
\* character ".", an upper-case letter, text that is no numeral.
CellChoices(c) ==
    CASE c = "Postcode" -> {<<>>, <<"2">>}
      [] c = "Latitude" -> {<<>>, <<"a">>, <<"3">>}
      [] c = "Longitude" -> {<<>>, <<"a">>, <<"3">>}
      [] c = "BoroCode" -> {<<>>, <<"2">>, <<"6">>}
      [] OTHER -> {<<>>, <<"a", ".">>, <<"A">>, <<"a", "n">>}

\* The rows of the tables: the default row with at most one cell changed.
RowPool ==
    {DefaultRow} \cup
    UNION {{[DefaultRow EXCEPT ![c] = x] : x \in CellChoices(c)} : c \in CsvColumns}

Tables == UNION {[1..n -> RowPool] : n \in 0..MaxRows}

NoSession ==
    /\ selected_hotspot = {} /\ show_directions = {} /\ location_shared = {}
    /\ user_location = {} /\ location_requested = {} /\ hotspot_sample = {}
    /\ last_object_clicked = {}
    /\ hotspot_table = {} /\ response = {}
    /\ map_data = {} /\ markers = {} /\ polyline = FALSE /\ messages = {}
    /\ run = "none" /\ event = "none" /\ prev_selected = {}

InitData ==
    /\ csv \in Tables
    /\ df = <<>>
    /\ selected_column_display = "All"
    /\ search = <<>>
    /\ filtered_df = <<>>
    /\ borough_summary = {}
    /\ pc = "csv"
    /\ NoSession

\* Lines 90-136.
LoadData ==
    /\ pc = "csv"
    /\ df' \in Load(csv)
    /\ pc' = "loaded"
    /\ UNCHANGED <<csv, selected_column_display, search, filtered_df, borough_summary>>
    /\ UNCHANGED sessionVars

\* Lines 215-285 with no map-click selection: the user picks a column and one
\* of the options of the search box.
ApplyFilter ==
    /\ pc \in {"loaded", "filtered"}
    /\ \E display \in search_columns :
         \E q \in {<<>>} \cup all_suggestions(df, selected_column(display), PostcodeIsFloat(csv)) :
            /\ selected_column_display' = display
            /\ search' = q
            /\ filtered_df' = FilterEngine(df, selected_column(display), q, {},
                                           PostcodeIsFloat(csv))
    /\ pc' = "filtered"
    /\ UNCHANGED <<csv, df, borough_summary>>
    /\ UNCHANGED sessionVars

\* Lines 605-625.
Summarize ==
    /\ pc \in {"loaded", "filtered"}
    /\ borough_summary' = BoroughSummary(df)
    /\ pc' = "summarized"
    /\ UNCHANGED <<csv, df, selected_column_display, search, filtered_df>>
    /\ UNCHANGED sessionVars

NextData == LoadData \/ ApplyFilter \/ Summarize

SpecData == InitData /\ [][NextData]_vars

(***************************************************************************)
(* Routing client.                                                         *)
(***************************************************************************)
\* What requests.get can do: raise, or answer with a status and a body.  A
\* body is JSON or not; "routes" is absent ({}) or a list of routes; a route
\* may lack its geometry, its duration, its distance.
Route(geometry, duration, distance) ==
    [geometry |-> geometry, duration |-> duration, distance |-> distance]

Response(raised, status_code, json, routes) ==
    [raised |-> raised, status_code |-> status_code, json |-> json, routes |-> routes]

RoutingResponses ==
    { Response(TRUE, 0, FALSE, {}),                         \* network exception
      Response(FALSE, 404, TRUE, {}),                       \* non-200 status
      Response(FALSE, 200, FALSE, {}),                      \* body is no JSON
      Response(FALSE, 200, TRUE, {}),                       \* no "routes" key
      Response(FALSE, 200, TRUE, {<<>>}),                   \* empty routes list
      Response(FALSE, 200, TRUE, {<<Route({}, {60}, {100})>>}),   \* no geometry
      Response(FALSE, 200, TRUE, {<<Route({<<<<5, 4>>, <<2, 1>>>>}, {60}, {100})>>}),
      Response(FALSE, 200, TRUE, {<<Route({<<<<2, 1>>, <<2, 1>>>>}, {0}, {0})>>}),
      Response(FALSE, 200, TRUE, {<<Route({<<<<5, 4>>, <<2, 1>>>>}, {}, {})>>}) }

\* What the call gives back: a 3-tuple (is_tuple) or a bare None, and
\* whether st.error was called.
Returned(is_tuple, route_coords, duration, distance, error) ==
    [is_tuple |-> is_tuple, route_coords |-> route_coords, duration |-> duration,
     distance |-> distance, error |-> error]

\* dict.get(key, 0)
GetOrZero(field) == IF field = {} THEN {0} ELSE field

\* Convert from [lon, lat] to [lat, lon] for folium.
SwapPairs(coordinates) ==
    [k \in 1..Len(coordinates) |-> <<coordinates[k][2], coordinates[k][1]>>]

\* Lines 181-212.
get_directions_osrm(resp) ==
    IF resp.raised
    THEN Returned(TRUE, {}, {}, {}, TRUE)
    ELSE IF resp.status_code = 200
    THEN IF ~resp.json
         THEN Returned(TRUE, {}, {}, {}, TRUE)
         ELSE IF resp.routes # {} /\ Len(CHOOSE l \in resp.routes : TRUE) > 0
         THEN LET first == (CHOOSE l \in resp.routes : TRUE)[1]
              IN  IF first.geometry = {}
                  THEN Returned(TRUE, {}, {}, {}, TRUE)
                  ELSE Returned(TRUE,
                                {SwapPairs(CHOOSE g \in first.geometry : TRUE)},
                                GetOrZero(first.duration),
                                GetOrZero(first.distance), FALSE)
         ELSE Returned(FALSE, {}, {}, {}, FALSE)
    ELSE Returned(TRUE, {}, {}, {}, TRUE)

(***************************************************************************)
(* One run of the script, top to bottom.  A run is a record r: the session *)
(* state and the widget values it started with, what it has rendered, and  *)
(* r.end, "running" until the run ends.  A step of the script maps a run   *)
(* to the set of runs it can become (one for each input it may read).      *)
(***************************************************************************)
\* abs(current - clicked) > 0.0001, in units of 0.0001 degree.
Tolerance == 1

Abs(n) == IF n < 0 THEN -n ELSE n

Truth(flag) == flag = {TRUE}

\* The clear button without the deletion of line 252: the selection stays.
ClearStepKeepsSelection(r) ==
    IF r.end # "running" \/ r.pressed # "clear_button" THEN {r}
    ELSE {[r EXCEPT !.search = <<>>,
                    !.show_directions = {},
                    !.end = "rerun"]}

\* Lines 243-256: the clear button.  (The flags clear_search and
\* refresh_clicked are written by the script and never read: they are not
\* part of the state.)
ClearStep(r) ==
    IF r.end # "running" \/ r.pressed # "clear_button" THEN {r}
    ELSE {[r EXCEPT !.search = <<>>,
                    !.selected_hotspot = {},
                    !.show_directions = {},
                    !.end = "rerun"]}

\* The filter step with a coupling the script does not have: an empty search
\* box deletes the selection.
FilterStepDropsSelection(r) ==
    IF r.end # "running" THEN {r}
    ELSE LET r1 == IF r.search = <<>> THEN [r EXCEPT !.selected_hotspot = {}] ELSE r
         IN  {[r1 EXCEPT !.filtered_df =
                 FilterEngine(df, selected_column(r1.column), r1.search,
                              r1.selected_hotspot, PostcodeIsFloat(csv))]}

\* Lines 267-302: filtered_df and the table.
FilterStep(r) ==
    IF r.end # "running" THEN {r}
    ELSE {[r EXCEPT !.filtered_df =
              FilterEngine(df, selected_column(r.column), r.search,
                           r.selected_hotspot, PostcodeIsFloat(csv))]}

\* df.sample(n): any n rows; a ValueError when df has fewer.
Samples == {S \in SUBSET (1..Len(df)) : Cardinality(S) = SampleN}

\* Lines 326-336: the refresh button.
RefreshStep(r) ==
    IF r.end # "running" \/ r.pressed # "refresh_button" THEN {r}
    ELSE IF Samples = {}
    THEN {[r EXCEPT !.end = "crashed"]}
    ELSE {[r EXCEPT !.hotspot_sample = {S},
                    !.selected_hotspot = {},
                    !.show_directions = {},
                    !.end = "rerun"] : S \in Samples}

\* The location-sharing toggle without the deletion of show_directions when
\* sharing is turned off.
LocationStepKeepsDirections(r) ==
    IF r.end # "running" THEN {r}
    ELSE LET r1 == [r EXCEPT !.location_shared = IF @ = {} THEN {FALSE} ELSE @]
             on == ~Truth(r1.location_shared)
         IN  IF r.pressed # "location_button" THEN {r1}
             ELSE IF on
             THEN {[r1 EXCEPT !.location_shared = {TRUE}, !.end = "rerun"]}
             ELSE {[r1 EXCEPT !.location_shared = {FALSE},
                              !.user_location = {},
                              !.location_requested = {},
                              !.end = "rerun"]}

\* The location-sharing toggle without the deletion of user_location and
\* location_requested when sharing is turned off.
LocationStepKeepsLocation(r) ==
    IF r.end # "running" THEN {r}
    ELSE LET r1 == [r EXCEPT !.location_shared = IF @ = {} THEN {FALSE} ELSE @]
             on == ~Truth(r1.location_shared)
         IN  IF r.pressed # "location_button" THEN {r1}
             ELSE IF on
             THEN {[r1 EXCEPT !.location_shared = {TRUE}, !.end = "rerun"]}
             ELSE {[r1 EXCEPT !.location_shared = {FALSE},
                              !.show_directions = {},
                              !.end = "rerun"]}

\* Lines 338-366: the location-sharing toggle.
LocationStep(r) ==
    IF r.end # "running" THEN {r}
    ELSE LET r1 == [r EXCEPT !.location_shared = IF @ = {} THEN {FALSE} ELSE @]
             on == ~Truth(r1.location_shared)
         IN  IF r.pressed # "location_button" THEN {r1}
             ELSE IF on
             THEN {[r1 EXCEPT !.location_shared = {TRUE}, !.end = "rerun"]}
             ELSE {[r1 EXCEPT !.location_shared = {FALSE},
                              !.user_location = {},
                              !.location_requested = {},
                              !.show_directions = {},
                              !.end = "rerun"]}

\* Line 374.
can_show_directions(shared, location, hotspot) ==
    Truth(shared) /\ location # {} /\ hotspot # {}

\* Lines 368-399: the directions toggle.
DirectionsStep(r) ==
    IF r.end # "running" THEN {r}
    ELSE LET r1 == [r EXCEPT !.show_directions = IF @ = {} THEN {FALSE} ELSE @]
         IN  IF /\ can_show_directions(r1.location_shared, r1.user_location,
                                       r1.selected_hotspot)
                /\ r.pressed = "directions_button"
             THEN {[r1 EXCEPT !.show_directions = {~Truth(r1.show_directions)},
                              !.end = "rerun"]}
             ELSE {r1}

\* What streamlit_geolocation() may give: nothing yet, null values, zeros,
\* a position.
Reading(latitude, longitude) == [latitude |-> latitude, longitude |-> longitude]

GeoReadings == {{}, {Reading({}, {})}, {Reading({0}, {0})}, {Reading({4}, {5})}}

ValidReading(location) ==
    /\ location # {}
    /\ LET g == CHOOSE x \in location : TRUE
       IN  /\ g.latitude # {} /\ g.longitude # {}
           /\ g.latitude # {0} /\ g.longitude # {0}

Place(lat, lon) == [lat |-> lat, lon |-> lon]

\* Lines 425-453: auto-detect.  The component hands a new reading to the run
\* it triggers; any other run reads what it held before, which is no position
\* (a position would have been taken as user_location by the run that read it).
AutoDetectStep(r) ==
    IF r.end # "running" \/ ~Truth(r.location_shared) \/ r.user_location # {}
    THEN {r}
    ELSE LET r1 == IF r.pressed = "auto_detect"
                   THEN [r EXCEPT !.location_requested = {TRUE}] ELSE r
         IN  IF ~Truth(r1.location_requested) THEN {r1}
             ELSE {IF ValidReading(location)
                   THEN LET g == CHOOSE x \in location : TRUE
                        IN  [r1 EXCEPT !.user_location =
                                          {Place(Num(CHOOSE x \in g.latitude : TRUE),
                                                 Num(CHOOSE x \in g.longitude : TRUE))},
                                       !.location_requested = {FALSE},
                                       !.end = "rerun"]
                   ELSE r1 :
                   location \in IF r.pressed = "geolocation" THEN GeoReadings
                                ELSE {x \in GeoReadings : ~ValidReading(x)}}

\* Lines 455-470: manual entry.
SetLocationStep(r) ==
    IF r.end # "running" \/ ~Truth(r.location_shared) \/ r.user_location # {}
    THEN {r}
    ELSE IF r.pressed = "set_location"
    THEN {[r EXCEPT !.user_location = {r.manual}, !.end = "rerun"]}
    ELSE {r}

\* The choice of map_data with the first two branches in the other order:
\* the search before the selection.
MapDataStepSearchFirst(r) ==
    IF r.end # "running" THEN {r}
    ELSE IF r.search # <<>>
    THEN {[r EXCEPT !.map_data = {r.filtered_df[k] : k \in 1..Len(r.filtered_df)}]}
    ELSE IF r.selected_hotspot # {}
    THEN {[r EXCEPT !.map_data =
              {i \in 1..Len(df) :
                  AtHotspot(df[i], CHOOSE h \in r.selected_hotspot : TRUE)}]}
    ELSE IF r.hotspot_sample # {}
    THEN {[r EXCEPT !.map_data = CHOOSE S \in r.hotspot_sample : TRUE]}
    ELSE IF Samples = {}
    THEN {[r EXCEPT !.end = "crashed"]}
    ELSE {[r EXCEPT !.hotspot_sample = {S}, !.map_data = S] : S \in Samples}

\* Lines 485-498: what the map shows.
MapDataStep(r) ==
    IF r.end # "running" THEN {r}
    ELSE IF r.selected_hotspot # {}
    THEN {[r EXCEPT !.map_data =
              {i \in 1..Len(df) :
                  AtHotspot(df[i], CHOOSE h \in r.selected_hotspot : TRUE)}]}
    ELSE IF r.search # <<>>
    THEN {[r EXCEPT !.map_data = {r.filtered_df[k] : k \in 1..Len(r.filtered_df)}]}
    ELSE IF r.hotspot_sample # {}
    THEN {[r EXCEPT !.map_data = CHOOSE S \in r.hotspot_sample : TRUE]}
    ELSE IF Samples = {}
    THEN {[r EXCEPT !.end = "crashed"]}
    ELSE {[r EXCEPT !.hotspot_sample = {S}, !.map_data = S] : S \in Samples}

\* st.session_state.get("hotspot_table", {}): nothing usable ({}), or the
\* address and SSID of a row.
TableRow(address, ssid) == [address |-> address, ssid |-> ssid]

\* Python's == on cells: a NaN cell equals nothing.
TextEq(a, b) == a # <<>> /\ b # <<>> /\ a = b

\* The colour with the two tests in the other order: the table row before
\* the selection.
MarkerColorTableFirst(row, hotspot, table) ==
    IF /\ table # {}
       /\ LET t == CHOOSE x \in table : TRUE
          IN  TextEq(row["Location"], t.address) /\ TextEq(row["SSID"], t.ssid)
    THEN "green"
    ELSE IF hotspot # {} /\ AtHotspot(row, CHOOSE h \in hotspot : TRUE) THEN "red"
    ELSE "blue"

\* Lines 508-525: the colour of the marker of one row.
MarkerColor(row, hotspot, table) ==
    IF hotspot # {}
    THEN IF AtHotspot(row, CHOOSE h \in hotspot : TRUE) THEN "red" ELSE "blue"
    ELSE IF /\ table # {}
            /\ LET t == CHOOSE x \in table : TRUE
               IN  TextEq(row["Location"], t.address) /\ TextEq(row["SSID"], t.ssid)
    THEN "green"
    ELSE "blue"

Marker(i, color) == [row |-> i, color |-> color]

\* Lines 500-537: one marker per row of map_data; folium.Marker raises a
\* ValueError for a NaN coordinate.
MarkerStep(r) ==
    IF r.end # "running" THEN {r}
    ELSE IF \E i \in r.map_data : df[i]["Latitude"].nan \/ df[i]["Longitude"].nan
    THEN {[r EXCEPT !.end = "crashed"]}
    ELSE {[r EXCEPT !.markers =
              {Marker(i, MarkerColor(df[i], r.selected_hotspot, r.hotspot_table)) :
                 i \in r.map_data}]}

\* Lines 539-572: the route overlay.
RouteStep(r) ==
    IF \/ r.end # "running"
       \/ ~(Truth(r.show_directions) /\ r.user_location # {} /\ r.selected_hotspot # {})
    THEN {r}
    ELSE {LET ret == get_directions_osrm(resp)
              shown == IF ret.error THEN {"routing_error"} ELSE {}
          IN  IF ~ret.is_tuple
              THEN [r EXCEPT !.response = {resp}, !.messages = @ \cup shown,
                             !.end = "crashed"]
              ELSE IF ret.route_coords # {} /\ (CHOOSE c \in ret.route_coords : TRUE) # <<>>
              THEN [r EXCEPT !.response = {resp},
                             !.polyline = TRUE,
                             !.messages = @ \cup shown \cup
                                 (IF ret.duration \notin {{}, {0}} /\ ret.distance \notin {{}, {0}}
                                  THEN {"route_info"} ELSE {})]
              ELSE [r EXCEPT !.response = {resp}, !.messages = @ \cup shown] :
          resp \in RoutingResponses}

Clicked(lat, lng) == [lat |-> lat, lng |-> lng]

\* The click handling without the comparison of lines 586-591: every click
\* the map reports is taken as the selection, and the script reruns.
ClickStepWithoutComparison(r) ==
    IF r.end # "running" THEN {r}
    ELSE {IF reported = {} THEN [r EXCEPT !.last_object_clicked = {}]
          ELSE LET c == CHOOSE x \in reported : TRUE
               IN  [r EXCEPT !.selected_hotspot = {Place(c.lat, c.lng)},
                             !.end = "rerun"] :
          reported \in IF r.pressed = "map_click" THEN {r.last_object_clicked}
                       ELSE {r.last_object_clicked, {}}}

\* Lines 574-597: the map component and its last clicked marker.  A click the
\* user just made is reported; an older one is reported again or forgotten.
ClickStep(r) ==
    IF r.end # "running" THEN {r}
    ELSE {IF reported = {} THEN [r EXCEPT !.last_object_clicked = {}]
          ELSE LET c == CHOOSE x \in reported : TRUE
                   differs ==
                      \/ r.selected_hotspot = {}
                      \/ LET cur == CHOOSE h \in r.selected_hotspot : TRUE
                         IN  \/ Abs(cur.lat.v - c.lat.v) > Tolerance
                             \/ Abs(cur.lon.v - c.lng.v) > Tolerance
               IN  IF differs
                   THEN [r EXCEPT !.selected_hotspot = {Place(c.lat, c.lng)},
                                  !.end = "rerun"]
                   ELSE r :
          reported \in IF r.pressed = "map_click" THEN {r.last_object_clicked}
                       ELSE {r.last_object_clicked, {}}}

\* Lines 600-640: the borough table; map_fullscreen is never set.
SummaryStep(r) ==
    IF r.end # "running" THEN {r}
    ELSE {[r EXCEPT !.borough_summary = BoroughSummary(df), !.end = "completed"]}

\* The runs the script can make from r, in the order of the source.
ScriptRuns(r) ==
    LET s1  == ClearStep(r)
        s2  == UNION {FilterStep(x) : x \in s1}
        s3  == UNION {RefreshStep(x) : x \in s2}
        s4  == UNION {LocationStep(x) : x \in s3}
        s5  == UNION {DirectionsStep(x) : x \in s4}
        s6  == UNION {AutoDetectStep(x) : x \in s5}
        s7  == UNION {SetLocationStep(x) : x \in s6}
        s8  == UNION {MapDataStep(x) : x \in s7}
        s9  == UNION {MarkerStep(x) : x \in s8}
        s10 == UNION {RouteStep(x) : x \in s9}
        s11 == UNION {ClickStep(x) : x \in s10}
    IN  UNION {SummaryStep(x) : x \in s11}

(***************************************************************************)
(* The session: the user acts, the script runs, a rerun follows st.rerun.  *)
(***************************************************************************)
HotspotA == DefaultRow

\* At the coordinates of HotspotA, another network.
HotspotB == [DefaultRow EXCEPT !["SSID"] = <<"a", ".">>, !["Postcode"] = <<"2">>]

\* Far from HotspotA, in a borough code outside 1..5.
HotspotC ==
    [DefaultRow EXCEPT !["Latitude"] = <<"3">>, !["Location"] = <<"A">>,
                       !["Postcode"] = <<"3">>, !["BoroCode"] = <<"6">>]

\* A latitude that is no number.
HotspotD == [DefaultRow EXCEPT !["Latitude"] = <<"a">>, !["Postcode"] = <<>>]

\* One tolerance away from HotspotA.
HotspotE ==
    [DefaultRow EXCEPT !["Latitude"] = <<"2">>, !["Name"] = <<"a", "n">>,
                       !["Postcode"] = <<"2">>]

SessionTables == {<<HotspotA, HotspotB, HotspotC>>, <<HotspotA, HotspotE, HotspotD>>}

\* The options of "Filter by:" the user of the session picks from.
SessionColumns == {"All", "WiFi Network (SSID)"}

\* The options of the search box the user of the session picks from.
SessionQueries == {<<>>, <<"n">>, <<"a", ".">>}

\* The coordinates typed into "Your Latitude" and "Your Longitude".
ManualPlaces == {Place(Num(4), Num(5))}

Init ==
    /\ csv \in SessionTables
    /\ df \in Load(csv)
    /\ selected_column_display = "All"
    /\ search = <<>>
    /\ filtered_df = <<>>
    /\ borough_summary = {}
    /\ pc = "session"
    /\ NoSession

\* The run that starts with the session as it is, a widget pressed and the
\* widget values given.
StartRun(pressed, column, query, click, manual, table) ==
    [pressed |-> pressed, end |-> "running", column |-> column, search |-> query,
     selected_hotspot |-> selected_hotspot, show_directions |-> show_directions,
     location_shared |-> location_shared, user_location |-> user_location,
     location_requested |-> location_requested, hotspot_sample |-> hotspot_sample,
     last_object_clicked |-> click, manual |-> manual,
     hotspot_table |-> table,
     filtered_df |-> <<>>, map_data |-> {}, markers |-> {},
     response |-> {}, polyline |-> FALSE, messages |-> {},
     borough_summary |-> {}]

\* The state a run leaves behind.
Commit(r) ==
    /\ selected_column_display' = r.column
    /\ search' = r.search
    /\ filtered_df' = r.filtered_df
    /\ borough_summary' = r.borough_summary
    /\ selected_hotspot' = r.selected_hotspot
    /\ show_directions' = r.show_directions
    /\ location_shared' = r.location_shared
    /\ user_location' = r.user_location
    /\ location_requested' = r.location_requested
    /\ hotspot_sample' = r.hotspot_sample
    /\ last_object_clicked' = r.last_object_clicked
    /\ hotspot_table' = r.hotspot_table
    /\ response' = r.response
    /\ map_data' = r.map_data
    /\ markers' = r.markers
    /\ polyline' = r.polyline
    /\ messages' = r.messages
    /\ run' = r.end
    /\ UNCHANGED <<csv, df, pc>>

\* A user action: the script runs with the widget pressed.
UserRun(name, pressed, column, query, click, manual, table) ==
    \E r \in ScriptRuns(StartRun(pressed, column, query, click, manual, table)) :
        /\ Commit(r)
        /\ event' = name
        /\ prev_selected' = selected_hotspot

Idle == pc = "session" /\ run \in {"completed", "crashed"}

NoPlace == Place(Num(0), Num(0))

Press(name) ==
    UserRun(name, name, selected_column_display, search, last_object_clicked, NoPlace, hotspot_table)

\* The browser opens the page: the first run.
PageLoad ==
    /\ pc = "session" /\ run = "none"
    /\ UserRun("page_load", "none", selected_column_display, search,
               last_object_clicked, NoPlace, hotspot_table)

ClearButton == Idle /\ Press("clear_button")

RefreshButton == Idle /\ Press("refresh_button")

LocationButton == Idle /\ Press("location_button")

\* The button is enabled only when the last run found can_show_directions.
DirectionsButton ==
    /\ Idle
    /\ can_show_directions(location_shared, user_location, selected_hotspot)
    /\ Press("directions_button")

\* The location panel is shown while sharing is on and no location is known.
AutoDetect ==
    /\ Idle /\ Truth(location_shared) /\ user_location = {}
    /\ Press("auto_detect")

SetLocation ==
    /\ Idle /\ Truth(location_shared) /\ user_location = {}
    /\ \E manual \in ManualPlaces :
          UserRun("set_location", "set_location", selected_column_display, search,
                  last_object_clicked, manual, hotspot_table)

\* The geolocation component has a new value for the script.
GeolocationUpdate ==
    /\ Idle /\ Truth(location_shared) /\ user_location = {}
    /\ Truth(location_requested)
    /\ UserRun("geolocation", "geolocation", selected_column_display, search,
               last_object_clicked, NoPlace, hotspot_table)

\* The user picks another option of the search box.
ChangeSearch ==
    /\ Idle
    /\ \E q \in (({<<>>} \cup all_suggestions(df, selected_column(selected_column_display),
                                             PostcodeIsFloat(csv)))
                 \cap SessionQueries) \ {search} :
          UserRun("search", "none", selected_column_display, q,
                  last_object_clicked, NoPlace, hotspot_table)

\* The user picks another column: the search box has new options, and keeps
\* its value only if that is still one of them.
ChangeColumn ==
    /\ Idle
    /\ \E display \in (search_columns \cap SessionColumns) \ {selected_column_display} :
         \E q \in {<<>>} \cup
                  ({search} \cap all_suggestions(df, selected_column(display),
                                                 PostcodeIsFloat(csv))) :
            UserRun("column", "none", display, q, last_object_clicked, NoPlace, hotspot_table)

\* The user clicks a marker of the map.
MapClick ==
    /\ pc = "session" /\ run = "completed"
    /\ \E m \in markers :
          UserRun("map_click", "map_click", selected_column_display, search,
                  {Clicked(df[m.row]["Latitude"], df[m.row]["Longitude"])}, NoPlace,
                  hotspot_table)

\* The user picks the first hotspot of the data in the table when it is
\* shown there, or drops the pick.
SelectRow ==
    /\ pc = "session" /\ run = "completed"
    /\ \E table \in ({{}} \cup
                      (IF \E k \in 1..Len(filtered_df) : filtered_df[k] = 1
                       THEN {{TableRow(df[1]["Location"], df[1]["SSID"])}}
                       ELSE {})) \ {hotspot_table} :
          UserRun("table", "none", selected_column_display, search,
                  last_object_clicked, NoPlace, table)

\* st.rerun(): the script runs again, no widget pressed.  When the map
\* reports a click that changes the selection, that click is the event the
\* following runs answer.
Rerun ==
    /\ pc = "session" /\ run = "rerun"
    /\ \E r \in ScriptRuns(StartRun("none", selected_column_display, search,
                                    last_object_clicked, NoPlace, hotspot_table)) :
          /\ Commit(r)
          /\ IF r.end = "rerun" /\ r.selected_hotspot # selected_hotspot
             THEN event' = "map_click" /\ prev_selected' = selected_hotspot
             ELSE UNCHANGED <<event, prev_selected>>

Next ==
    \/ PageLoad
    \/ ClearButton
    \/ RefreshButton
    \/ LocationButton
    \/ DirectionsButton
    \/ AutoDetect
    \/ SetLocation
    \/ GeolocationUpdate
    \/ ChangeSearch
    \/ ChangeColumn
    \/ MapClick
    \/ SelectRow
    \/ Rerun

Spec == Init /\ [][Next]_vars

(***************************************************************************)
(* Claims about the session (checked under Spec).                          *)
(***************************************************************************)
\* What filtered_df holds.
InFiltered(i) == \E k \in 1..Len(filtered_df) : filtered_df[k] = i

KeepsInputOrder ==
    \A k, l \in 1..Len(filtered_df) : k < l => filtered_df[k] < filtered_df[l]

\* The routing outcomes the claim names: a network exception, a non-200
\* status, a 200 body with no "routes" key, an empty routes list or a route
\* without geometry.
RoutingFailed(resp) ==
    \/ resp.raised
    \/ resp.status_code # 200
    \/ /\ resp.json
       /\ \/ resp.routes = {}
          \/ \E l \in resp.routes : l = <<>> \/ l[1].geometry = {}

\* C1: for every failing outcome of the routing request, get_directions_osrm
\* returns a failure signal, and the run that asked for directions ends with
\* a user-visible message and no polyline; no outcome makes the run crash.
C1_RoutingFailureIsHandled ==
    \A resp \in response :
        RoutingFailed(resp) =>
            /\ get_directions_osrm(resp).is_tuple
            /\ get_directions_osrm(resp).route_coords = {}
            /\ run # "crashed"
            /\ "routing_error" \in messages
            /\ ~polyline

C3_DirectionsNeedPreconditions ==
    Truth(show_directions) =>
        Truth(location_shared) /\ user_location # {} /\ selected_hotspot # {}

C3_Witness ==
    /\ run = "completed" /\ Truth(show_directions) /\ polyline
    /\ Truth(location_shared) /\ user_location # {} /\ selected_hotspot # {}

MarkerRows == {m.row : m \in markers}

SearchMatches ==
    {i \in 1..Len(df) :
        mask(df[i], selected_column(selected_column_display), search,
             PostcodeIsFloat(csv))}

RowsAtSelection ==
    {i \in 1..Len(df) : \E h \in selected_hotspot : AtHotspot(df[i], h)}

\* C4 as stated: with a non-empty search and a selection in the same run, the
\* table and the markers of the map both show the records matching the
\* search.
C4_SearchDecidesTableAndMap ==
    (run = "completed" /\ search # <<>> /\ selected_hotspot # {}) =>
        /\ {filtered_df[k] : k \in 1..Len(filtered_df)} = SearchMatches
        /\ MarkerRows = SearchMatches

\* C4 as amended: with a non-empty search and a selection in the same run,
\* the table shows the records matching the search and the map shows the
\* markers of the records at the selected coordinates, matching or not.
C4_SearchDecidesTableSelectionDecidesMap ==
    (run = "completed" /\ search # <<>> /\ selected_hotspot # {}) =>
        /\ {filtered_df[k] : k \in 1..Len(filtered_df)} = SearchMatches
        /\ MarkerRows = RowsAtSelection

C4_Witness ==
    /\ run = "completed" /\ search # <<>> /\ selected_hotspot # {}
    /\ SearchMatches # RowsAtSelection
    /\ MarkerRows # {}

AllRows == [i \in 1..Len(df) |-> i]

\* C6 as stated: when the search query is empty, filtered_df equals df, also
\* when a selection exists.
C6_EmptyQueryReturnsAll ==
    (run = "completed" /\ search = <<>>) => filtered_df = AllRows

\* C6 as amended: when the search query is empty, filtered_df equals df if
\* there is no selection, and holds exactly the records at the selected
\* coordinates if there is one.
C6_EmptyQueryReturnsAllOrSelection ==
    (run = "completed" /\ search = <<>>) =>
        IF selected_hotspot = {} THEN filtered_df = AllRows
        ELSE /\ {filtered_df[k] : k \in 1..Len(filtered_df)} = RowsAtSelection
             /\ KeepsInputOrder

C6_Witness ==
    /\ run = "completed" /\ search = <<>> /\ selected_hotspot # {}
    /\ filtered_df # AllRows /\ filtered_df # <<>>

\* The selection the markers of the last run were coloured with: a run that
\* ends in st.rerun after drawing markers has just replaced it.
SelectionDrawn == IF run = "rerun" THEN prev_selected ELSE selected_hotspot

MatchesTable(row) ==
    \E t \in hotspot_table :
        TextEq(row["Location"], t.address) /\ TextEq(row["SSID"], t.ssid)

\* C10: every rendered marker is red if a selection exists and the record is
\* at its coordinates, otherwise green if the record matches the table row
\* by address and SSID, otherwise blue.
C10_MarkerColourPriority ==
    \A m \in markers :
        m.color =
            IF \E h \in SelectionDrawn : AtHotspot(df[m.row], h) THEN "red"
            ELSE IF MatchesTable(df[m.row]) THEN "green"
            ELSE "blue"

C10_Witness ==
    \E m \in markers :
        /\ \E h \in SelectionDrawn : AtHotspot(df[m.row], h)
        /\ MatchesTable(df[m.row])
        /\ m.color = "red"

\* C11: setting the search box back to the empty query while a selection
\* exists leaves selected_hotspot, user_location, location_shared and
\* show_directions as they were (only the Clear button removes the selection
\* together with the search).
C11_SearchBoxClearKeepsSelection ==
    [][(/\ Idle /\ selected_hotspot # {} /\ search # <<>>
        /\ event' = "search" /\ search' = <<>>) =>
           /\ selected_hotspot' = selected_hotspot
           /\ user_location' = user_location
           /\ location_shared' = location_shared
           /\ show_directions' = show_directions]_vars

C11_Witness ==
    /\ run = "completed" /\ event = "search" /\ search = <<>>
    /\ prev_selected # {} /\ selected_hotspot = prev_selected
    /\ user_location # {} /\ Truth(show_directions)
    /\ filtered_df # AllRows

\* C12: in every session state a user location is present only while location
\* sharing is on, and while sharing is off location_requested is absent:
\* turning sharing off clears both, and both are set only in the location
\* panel, which is shown while sharing is on.
C12_LocationOnlyWhileShared ==
    /\ user_location # {} => Truth(location_shared)
    /\ ~Truth(location_shared) => location_requested = {}

C12_Witness ==
    /\ run = "completed" /\ user_location # {} /\ Truth(location_shared)
    /\ location_requested = {FALSE} /\ event = "geolocation"

\* The run that just ended called st.rerun because of a click the map
\* reported.
ClickRerun == run = "rerun" /\ event = "map_click"

\* The click is more than the tolerance away from the selection, in latitude
\* or in longitude.
FarFrom(hotspot, c) ==
    \/ Abs(hotspot.lat.v - c.lat.v) > Tolerance
    \/ Abs(hotspot.lon.v - c.lng.v) > Tolerance

C5_CoordinatesNumericAfterLoad ==
    pc # "csv" =>
        \A i \in 1..Len(df) : ~df[i]["Latitude"].nan /\ ~df[i]["Longitude"].nan

\* C7: with column selector "All" and a non-empty query q, a record is in the
\* filter output if and only if q is a case-insensitive substring of the
\* string form of at least one of the nine displayed columns; the output
\* keeps the input order.
C7_AllColumnsSubstringMatch ==
    (pc = "filtered" /\ selected_column_display = "All" /\ search # <<>>) =>
        /\ \A i \in 1..Len(df) :
              InFiltered(i) <=>
                 \E c \in ShownColumns :
                    IsSubstringCI(search, astype_str(df[i], c, PostcodeIsFloat(csv)))
        /\ KeepsInputOrder

\* C8: with a specific column c and a non-empty query q, a record is in the
\* filter output if and only if q is a case-insensitive substring of the
\* string form of its column c (a match in another column never counts).
C8_OneColumnSubstringMatch ==
    (pc = "filtered" /\ selected_column_display # "All" /\ search # <<>>) =>
        \A i \in 1..Len(df) :
            InFiltered(i) <=>
               IsSubstringCI(search,
                             astype_str(df[i], selected_column(selected_column_display),
                                        PostcodeIsFloat(csv)))

\* C9: the counts of the borough summary add up to the number of loaded
\* records, records with an unmapped or a missing borough code included.
C9_BoroughCountsSumToTotal ==
    pc = "summarized" => SumCounts(borough_summary) = Len(df)

====
